---- MODULE Spec2Model ----
(***************************************************************************)
(* The weighted graph of task_3.py: Graph.add_edge, Graph.dijkstra (binary *)
(* heap with lazy deletion), Graph.shortest_path and the GraphDemo loader. *)
(*                                                                         *)
(* Python dictionaries are functions whose DOMAIN is the key set, lists    *)
(* are sequences, a KeyError is the pc value "raised".                     *)
(***************************************************************************)
EXTENDS Integers, Sequences, FiniteSets, TLC

VARIABLES
    adjacency,       \* Graph.adjacency: node -> sequence of <<target, weight>>
    op,              \* the last method called on the graph
    start,           \* argument start of the last dijkstra / shortest_path call
    end,             \* argument end of the last shortest_path call
    pc,              \* position of that call: idle, while, for, check, walk, returned, raised
    distances,       \* local distances of dijkstra
    previous_nodes,  \* local previous_nodes of dijkstra
    heap,            \* local heap of dijkstra, the heapq array
    visited_nodes,   \* local visited_nodes of dijkstra
    current_node,    \* local current_node (of dijkstra, then of shortest_path)
    edge_i,          \* position of the for loop over the adjacency list
    path,            \* local path of shortest_path
    pushes,          \* history: the heap pushes of the call so far, the seed included
    calls,           \* history: the add_edge calls made so far, in order
    loaded           \* GraphDemo._load_edges: number of demo edges loaded

vars == <<adjacency, op, start, end, pc, distances, previous_nodes, heap,
          visited_nodes, current_node, edge_i, path, pushes, calls, loaded>>

-----------------------------------------------------------------------------
(* Bounds and value sets *)

\* largest number of stored adjacency entries the model builds
MaxEntries == 2
\* largest edge weight the model draws
MaxWeight == 1
\* largest number of add_edge calls recorded in the history
MaxCalls == 2

\* largest number of stored adjacency entries of the graphs run step by step
MaxRunEntries == 5

Nodes == {"A", "B", "C"}
Weights == 0..MaxWeight

\* Python's None
None == "None"
\* float("inf"): a sentinel compared only through Less and Plus
inf == -1

EmptyMap == [n \in {} |-> 0]

\* a < b on Python numbers with inf
Less(a, b) == a # inf /\ (b = inf \/ a < b)
\* a + w on Python numbers with inf
Plus(a, w) == IF a = inf THEN inf ELSE a + w

-----------------------------------------------------------------------------
(* Graph.add_edge *)

\* adjacency.setdefault(key, []).append(entry)
SetDefaultAppend(adj, key, entry) ==
    IF key \in DOMAIN adj
    THEN [adj EXCEPT ![key] = Append(@, entry)]
    ELSE [n \in DOMAIN adj \cup {key} |-> IF n = key THEN <<entry>> ELSE adj[n]]

\* faulty variant: the source's list is replaced instead of appended to
add_edge_replace(adj, source, target, weight, bidirectional) ==
    LET a1 == [n \in DOMAIN adj \cup {source} |->
                 IF n = source THEN <<<<target, weight>>>> ELSE adj[n]]
    IN  IF bidirectional
        THEN SetDefaultAppend(a1, target, <<source, weight>>)
        ELSE a1

add_edge(adj, source, target, weight, bidirectional) ==
    LET a1 == SetDefaultAppend(adj, source, <<target, weight>>)
    IN  IF bidirectional
        THEN SetDefaultAppend(a1, target, <<source, weight>>)
        ELSE a1

\* adjacency.get(node, [])
Neighbors(adj, node) == IF node \in DOMAIN adj THEN adj[node] ELSE <<>>

RECURSIVE SumLen(_, _)
SumLen(adj, S) ==
    IF S = {} THEN 0
    ELSE LET n == CHOOSE x \in S : TRUE IN Len(adj[n]) + SumLen(adj, S \ {n})

\* number of stored adjacency entries
EntryCount(adj) == SumLen(adj, DOMAIN adj)

-----------------------------------------------------------------------------
(* heapq on HeapItem: items compare on distance only *)

HeapItem(d, n) == [distance |-> d, node |-> n]

\* HeapItem.__lt__ (dataclass order=True, node excluded from comparison)
ItemLess(x, y) == x.distance < y.distance

\* heapq._siftdown; positions are 0-based as in Python, h[p + 1] is heap[p]
RECURSIVE SiftdownLoop(_, _, _, _)
SiftdownLoop(h, startpos, pos, newitem) ==
    IF pos > startpos
    THEN LET parentpos == (pos - 1) \div 2
             parent == h[parentpos + 1]
         IN  IF ItemLess(newitem, parent)
             THEN SiftdownLoop([h EXCEPT ![pos + 1] = parent], startpos, parentpos, newitem)
             ELSE [h EXCEPT ![pos + 1] = newitem]
    ELSE [h EXCEPT ![pos + 1] = newitem]

Siftdown(h, startpos, pos) == SiftdownLoop(h, startpos, pos, h[pos + 1])

\* heapq._siftup
RECURSIVE SiftupLoop(_, _, _, _, _)
SiftupLoop(h, startpos, pos, childpos, newitem) ==
    IF childpos < Len(h)
    THEN LET rightpos == childpos + 1
             c == IF rightpos < Len(h) /\ ~ItemLess(h[childpos + 1], h[rightpos + 1])
                  THEN rightpos ELSE childpos
         IN  SiftupLoop([h EXCEPT ![pos + 1] = h[c + 1]], startpos, c, 2 * c + 1, newitem)
    ELSE Siftdown([h EXCEPT ![pos + 1] = newitem], startpos, pos)

Siftup(h, pos) == SiftupLoop(h, pos, pos, 2 * pos + 1, h[pos + 1])

\* heapq.heappush(heap, item)
heappush(h, item) == Siftdown(Append(h, item), 0, Len(h))

\* heapq.heappop(heap): the item returned
heappop_item(h) ==
    LET lastelt == h[Len(h)]
        rest == SubSeq(h, 1, Len(h) - 1)
    IN  IF rest # <<>> THEN rest[1] ELSE lastelt

\* heapq.heappop(heap): the heap left
heappop_rest(h) ==
    LET lastelt == h[Len(h)]
        rest == SubSeq(h, 1, Len(h) - 1)
    IN  IF rest # <<>> THEN Siftup([rest EXCEPT ![1] = lastelt], 0) ELSE rest

-----------------------------------------------------------------------------
(* The frame of a dijkstra / shortest_path call, as a record *)

Frame == [op |-> op, start |-> start, end |-> end, pc |-> pc,
          distances |-> distances, previous_nodes |-> previous_nodes,
          heap |-> heap, visited_nodes |-> visited_nodes,
          current_node |-> current_node, edge_i |-> edge_i, path |-> path,
          pushes |-> pushes]

Install(r) ==
    /\ op' = r.op
    /\ start' = r.start
    /\ end' = r.end
    /\ pc' = r.pc
    /\ distances' = r.distances
    /\ previous_nodes' = r.previous_nodes
    /\ heap' = r.heap
    /\ visited_nodes' = r.visited_nodes
    /\ current_node' = r.current_node
    /\ edge_i' = r.edge_i
    /\ path' = r.path
    /\ pushes' = r.pushes

\* no call in progress and no result held; o is the method that last ran
IdleFrame(o) ==
    [op |-> o, start |-> None, end |-> None, pc |-> "idle",
     distances |-> EmptyMap, previous_nodes |-> EmptyMap, heap |-> <<>>,
     visited_nodes |-> {}, current_node |-> None, edge_i |-> 0, path |-> <<>>,
     pushes |-> 0]

\* d[k] = v on a dictionary
DictSet(d, k, v) == [n \in DOMAIN d \cup {k} |-> IF n = k THEN v ELSE d[n]]

-----------------------------------------------------------------------------
(* Graph.dijkstra *)

\* faulty variant: visited_nodes is kept from the previous call instead of reset
InitRunKeepVisited(adj, o, s, e) ==
    [op |-> o, start |-> s, end |-> e, pc |-> "while",
     distances |-> DictSet([n \in DOMAIN adj |-> inf], s, 0),
     previous_nodes |-> [n \in DOMAIN adj |-> None],
     heap |-> <<HeapItem(0, s)>>,
     visited_nodes |-> visited_nodes,
     current_node |-> None, edge_i |-> 0, path |-> <<>>, pushes |-> 1]

\* faulty variant: the line distances[start] = 0 is missing
InitRunNoSeed(adj, o, s, e) ==
    [op |-> o, start |-> s, end |-> e, pc |-> "while",
     distances |-> [n \in DOMAIN adj |-> inf],
     previous_nodes |-> [n \in DOMAIN adj |-> None],
     heap |-> <<HeapItem(0, s)>>,
     visited_nodes |-> {},
     current_node |-> None, edge_i |-> 0, path |-> <<>>, pushes |-> 1]

\* lines 25-29: the tables, the heap and the visited set of a fresh call
InitRun(adj, o, s, e) ==
    [op |-> o, start |-> s, end |-> e, pc |-> "while",
     distances |-> DictSet([n \in DOMAIN adj |-> inf], s, 0),
     previous_nodes |-> [n \in DOMAIN adj |-> None],
     heap |-> <<HeapItem(0, s)>>,
     visited_nodes |-> {},
     current_node |-> None, edge_i |-> 0, path |-> <<>>, pushes |-> 1]

\* lines 31-36: the loop test, the pop and the visited test
WhileStep(r) ==
    IF r.heap = <<>>
    THEN [r EXCEPT !.pc = IF r.op = "dijkstra" THEN "returned" ELSE "check"]
    ELSE LET current_item == heappop_item(r.heap)
             popped == [r EXCEPT !.heap = heappop_rest(r.heap),
                                 !.current_node = current_item.node]
         IN  IF current_item.node \in r.visited_nodes
             THEN popped
             ELSE [popped EXCEPT !.visited_nodes = @ \cup {current_item.node},
                                 !.pc = "for", !.edge_i = 1]

\* faulty variant: the candidate distance forgets the distance of the current node
RelaxEdgeWeightOnly(r, neighbor, weight) ==
    IF r.current_node \notin DOMAIN r.distances \/ neighbor \notin DOMAIN r.distances
    THEN [r EXCEPT !.pc = "raised"]
    ELSE LET new_distance == weight
         IN  IF Less(new_distance, r.distances[neighbor])
             THEN [r EXCEPT !.distances = DictSet(@, neighbor, new_distance),
                            !.previous_nodes = DictSet(@, neighbor, r.current_node),
                            !.heap = heappush(@, HeapItem(new_distance, neighbor)),
                            !.pushes = @ + 1]
             ELSE r

\* faulty variant: the test is new_distance <= distances[neighbor]
RelaxEdgeLessEq(r, neighbor, weight) ==
    IF r.current_node \notin DOMAIN r.distances \/ neighbor \notin DOMAIN r.distances
    THEN [r EXCEPT !.pc = "raised"]
    ELSE LET new_distance == Plus(r.distances[r.current_node], weight)
         IN  IF ~Less(r.distances[neighbor], new_distance)
             THEN [r EXCEPT !.distances = DictSet(@, neighbor, new_distance),
                            !.previous_nodes = DictSet(@, neighbor, r.current_node),
                            !.heap = heappush(@, HeapItem(new_distance, neighbor)),
                            !.pushes = @ + 1]
             ELSE r

\* faulty variant: the line previous_nodes[neighbor] = current_node is missing
RelaxEdgeNoPrevious(r, neighbor, weight) ==
    IF r.current_node \notin DOMAIN r.distances \/ neighbor \notin DOMAIN r.distances
    THEN [r EXCEPT !.pc = "raised"]
    ELSE LET new_distance == Plus(r.distances[r.current_node], weight)
         IN  IF Less(new_distance, r.distances[neighbor])
             THEN [r EXCEPT !.distances = DictSet(@, neighbor, new_distance),
                            !.heap = heappush(@, HeapItem(new_distance, neighbor)),
                            !.pushes = @ + 1]
             ELSE r

\* lines 39-43: one edge; distances[...] on a missing key raises KeyError
RelaxEdge(r, neighbor, weight) ==
    IF r.current_node \notin DOMAIN r.distances \/ neighbor \notin DOMAIN r.distances
    THEN [r EXCEPT !.pc = "raised"]
    ELSE LET new_distance == Plus(r.distances[r.current_node], weight)
         IN  IF Less(new_distance, r.distances[neighbor])
             THEN [r EXCEPT !.distances = DictSet(@, neighbor, new_distance),
                            !.previous_nodes = DictSet(@, neighbor, r.current_node),
                            !.heap = heappush(@, HeapItem(new_distance, neighbor)),
                            !.pushes = @ + 1]
             ELSE r

\* line 38: one iteration of the for loop over adjacency.get(current_node, [])
ForStep(adj, r) ==
    LET list == Neighbors(adj, r.current_node)
    IN  IF r.edge_i > Len(list)
        THEN [r EXCEPT !.pc = "while", !.edge_i = 0]
        ELSE LET relaxed == RelaxEdge(r, list[r.edge_i][1], list[r.edge_i][2])
             IN  IF relaxed.pc = "raised"
                 THEN relaxed
                 ELSE [relaxed EXCEPT !.edge_i = @ + 1]

-----------------------------------------------------------------------------
(* Graph.shortest_path, after its call of dijkstra *)

\* distances.get(end, float("inf"))
DistanceOf(d, n) == IF n \in DOMAIN d THEN d[n] ELSE inf

RECURSIVE Reverse(_)
Reverse(s) == IF s = <<>> THEN <<>> ELSE Append(Reverse(Tail(s)), Head(s))

\* lines 50-53
CheckStep(r) ==
    IF DistanceOf(r.distances, r.end) = inf
    THEN [r EXCEPT !.pc = "returned", !.path = <<>>]
    ELSE [r EXCEPT !.pc = "walk", !.path = <<>>, !.current_node = r.end]

\* lines 54-58: one iteration of the walk; previous_nodes[...] may raise KeyError
WalkStep(r) ==
    IF r.current_node = None
    THEN [r EXCEPT !.pc = "returned", !.path = Reverse(@)]
    ELSE IF r.current_node \notin DOMAIN r.previous_nodes
         THEN [r EXCEPT !.pc = "raised", !.path = Append(@, r.current_node)]
         ELSE [r EXCEPT !.path = Append(@, r.current_node),
                        !.current_node = r.previous_nodes[r.current_node]]

-----------------------------------------------------------------------------
(* One step of a call, and a call run to its end *)

Running(p) == p \in {"while", "for", "check", "walk"}

Step(adj, r) ==
    CASE r.pc = "while" -> WhileStep(r)
      [] r.pc = "for"   -> ForStep(adj, r)
      [] r.pc = "check" -> CheckStep(r)
      [] r.pc = "walk"  -> WalkStep(r)
      [] OTHER          -> r

RECURSIVE Run(_, _)
Run(adj, r) == IF Running(r.pc) THEN Run(adj, Step(adj, r)) ELSE r

\* Graph.dijkstra(start), the whole call
dijkstra(adj, s) == Run(adj, InitRun(adj, "dijkstra", s, None))

\* Graph.shortest_path(start, end), the whole call
shortest_path(adj, s, e) == Run(adj, InitRun(adj, "shortest_path", s, e))

-----------------------------------------------------------------------------
(* GraphDemo._load_edges *)

DemoEdges ==
    << <<"A", "B", 4>>, <<"A", "C", 2>>, <<"B", "C", 5>>, <<"B", "D", 10>>,
       <<"C", "E", 3>>, <<"E", "D", 4>>, <<"D", "F", 11>> >>

DemoNodes == {"A", "B", "C", "D", "E", "F"}

\* the add_edge calls <<source, target, weight, bidirectional>> of the graphs
\* run step by step: A reaches B directly (weight 1 or 0) and through C,
\* B and C both lead to D, B leads back to A, D has a self-loop
RunCalls ==
    { <<"A", "B", 1, FALSE>>, <<"A", "B", 0, FALSE>>, <<"A", "C", 0, FALSE>>,
      <<"C", "B", 0, FALSE>>, <<"B", "A", 0, FALSE>>, <<"B", "D", 0, FALSE>>,
      <<"C", "D", 0, FALSE>>, <<"D", "D", 0, FALSE>>, <<"D", "A", 1, TRUE>> }

RunNodes == {"A", "B", "C", "D"}

-----------------------------------------------------------------------------
(* Actions *)

Init ==
    /\ adjacency = EmptyMap
    /\ op = "none"
    /\ start = None
    /\ end = None
    /\ pc = "idle"
    /\ distances = EmptyMap
    /\ previous_nodes = EmptyMap
    /\ heap = <<>>
    /\ visited_nodes = {}
    /\ current_node = None
    /\ edge_i = 0
    /\ path = <<>>
    /\ pushes = 0
    /\ calls = <<>>
    /\ loaded = 0

\* a call of Graph.add_edge; the results of an earlier query are dropped
AddEdgeCall(source, target, weight, bidirectional) ==
    /\ ~Running(pc)
    /\ adjacency' = add_edge(adjacency, source, target, weight, bidirectional)
    /\ Install(IdleFrame("add_edge"))

\* add_edge while the graph stays within MaxEntries
AddEdge(source, target, weight, bidirectional) ==
    /\ EntryCount(adjacency) + (IF bidirectional THEN 2 ELSE 1) <= MaxEntries
    /\ AddEdgeCall(source, target, weight, bidirectional)
    /\ UNCHANGED <<calls, loaded>>

\* add_edge with the call recorded in the history
LoggedAddEdge(source, target, weight, bidirectional) ==
    /\ Len(calls) < MaxCalls
    /\ AddEdgeCall(source, target, weight, bidirectional)
    /\ calls' = Append(calls, [source |-> source, target |-> target,
                               weight |-> weight, bidirectional |-> bidirectional])
    /\ UNCHANGED loaded

\* a whole call of Graph.dijkstra
DijkstraCall(s) ==
    /\ ~Running(pc)
    /\ Install(dijkstra(adjacency, s))
    /\ UNCHANGED <<adjacency, calls, loaded>>

\* a whole call of Graph.shortest_path
ShortestPathCall(s, e) ==
    /\ ~Running(pc)
    /\ Install(shortest_path(adjacency, s, e))
    /\ UNCHANGED <<adjacency, calls, loaded>>

\* lines 78-79: one iteration of the loading loop of GraphDemo
LoadEdge ==
    /\ loaded < Len(DemoEdges)
    /\ LET edge == DemoEdges[loaded + 1]
       IN  adjacency' = add_edge(adjacency, edge[1], edge[2], edge[3], TRUE)
    /\ loaded' = loaded + 1
    /\ UNCHANGED <<op, start, end, pc, distances, previous_nodes, heap,
                   visited_nodes, current_node, edge_i, path, pushes, calls>>

\* dijkstra is entered on the loaded demo graph
BeginDijkstra(s) ==
    /\ loaded = Len(DemoEdges)
    /\ ~Running(pc)
    /\ Install(InitRun(adjacency, "dijkstra", s, None))
    /\ UNCHANGED <<adjacency, calls, loaded>>

\* shortest_path is entered on the loaded demo graph
BeginShortestPath(s, e) ==
    /\ loaded = Len(DemoEdges)
    /\ ~Running(pc)
    /\ Install(InitRun(adjacency, "shortest_path", s, e))
    /\ UNCHANGED <<adjacency, calls, loaded>>

\* the call in progress takes one step
StepCall ==
    /\ Running(pc)
    /\ Install(Step(adjacency, Frame))
    /\ UNCHANGED <<adjacency, calls, loaded>>

-----------------------------------------------------------------------------
(* Specifications *)

\* graphs of up to MaxEntries entries over Nodes, queried by whole calls
Next ==
    \/ \E s \in Nodes, t \in Nodes, w \in Weights, b \in BOOLEAN : AddEdge(s, t, w, b)
    \/ \E s \in Nodes : DijkstraCall(s)
    \/ \E s \in Nodes, e \in Nodes : ShortestPathCall(s, e)

Spec == Init /\ [][Next]_vars

\* sequences of up to MaxCalls add_edge calls, with their history
NextEdges ==
    \E s \in Nodes, t \in Nodes, w \in Weights, b \in BOOLEAN : LoggedAddEdge(s, t, w, b)

SpecEdges == Init /\ [][NextEdges]_vars

\* the demo graph, loaded edge by edge and then queried step by step
NextDemo ==
    \/ LoadEdge
    \/ \E s \in DemoNodes : BeginDijkstra(s)
    \/ \E s \in DemoNodes, e \in DemoNodes : BeginShortestPath(s, e)
    \/ StepCall

SpecDemo == Init /\ [][NextDemo]_vars

\* dijkstra is entered: lines 25-29
EnterDijkstra(s) ==
    /\ ~Running(pc)
    /\ Install(InitRun(adjacency, "dijkstra", s, None))
    /\ UNCHANGED <<adjacency, calls, loaded>>

\* shortest_path is entered and enters dijkstra: line 49
EnterShortestPath(s, e) ==
    /\ ~Running(pc)
    /\ Install(InitRun(adjacency, "shortest_path", s, e))
    /\ UNCHANGED <<adjacency, calls, loaded>>

\* the stored entries of a graph are at most MaxRunEntries, and
\* <<target, weight>> is not yet in the list of source
CanAdd(adj, source, target, weight, bidirectional) ==
    /\ EntryCount(adj) + (IF bidirectional THEN 2 ELSE 1) <= MaxRunEntries
    /\ \A i \in 1..Len(Neighbors(adj, source)) : adj[source][i] # <<target, weight>>

\* add_edge with one of the calls of RunCalls, each made at most once
AddRunEdge(c) ==
    /\ CanAdd(adjacency, c[1], c[2], c[3], c[4])
    /\ AddEdgeCall(c[1], c[2], c[3], c[4])
    /\ UNCHANGED <<calls, loaded>>

\* graphs built from RunCalls in any order, queried step by step
NextRun ==
    \/ \E c \in RunCalls : AddRunEdge(c)
    \/ \E s \in RunNodes : EnterDijkstra(s)
    \/ \E s \in RunNodes, e \in RunNodes : EnterShortestPath(s, e)
    \/ StepCall

SpecRun == Init /\ [][NextRun]_vars

\* faulty variant: the heap gives no order, any entry may be popped
PopChoicesAny(h) == 1..Len(h)

\* the positions a pop may take when equal distances are popped in any order:
\* those of the entries that no entry is less than (HeapItem.__lt__)
PopChoices(h) == {i \in 1..Len(h) : \A j \in 1..Len(h) : ~ItemLess(h[j], h[i])}

RemoveAt(h, i) == SubSeq(h, 1, i - 1) \o SubSeq(h, i + 1, Len(h))

\* lines 32-36 when the pop returns the entry at position i
TieWhileStep(r, i) ==
    LET current_item == r.heap[i]
        popped == [r EXCEPT !.heap = RemoveAt(r.heap, i),
                            !.current_node = current_item.node]
    IN  IF current_item.node \in r.visited_nodes
        THEN popped
        ELSE [popped EXCEPT !.visited_nodes = @ \cup {current_item.node},
                            !.pc = "for", !.edge_i = 1]

\* one step of the call in progress, a pop taking any of PopChoices
TieStep ==
    /\ Running(pc)
    /\ IF pc = "while" /\ heap # <<>>
       THEN \E i \in PopChoices(heap) : Install(TieWhileStep(Frame, i))
       ELSE Install(Step(adjacency, Frame))
    /\ UNCHANGED <<adjacency, calls, loaded>>

\* graphs built from RunCalls, dijkstra run with every pop order among equals
NextTie ==
    \/ \E c \in RunCalls : AddRunEdge(c)
    \/ \E s \in RunNodes : EnterDijkstra(s)
    \/ TieStep

SpecTie == Init /\ [][NextTie]_vars

-----------------------------------------------------------------------------
(* Reference notions the properties are stated with *)

\* the stored edges <<source, target, weight>>
Edges(adj) ==
    UNION {{<<n, adj[n][i][1], adj[n][i][2]>> : i \in 1..Len(adj[n])} : n \in DOMAIN adj}

\* every node that is a key or the target of an entry
GraphNodes(adj) == DOMAIN adj \cup {e[2] : e \in Edges(adj)}

MinOf(S) ==
    LET finite == S \ {inf}
    IN  IF finite = {} THEN inf ELSE CHOOSE m \in finite : \A x \in finite : m <= x

\* k rounds of relaxing every edge
RECURSIVE BellmanFord(_, _, _)
BellmanFord(E, d, k) ==
    IF k = 0 THEN d
    ELSE BellmanFord(E,
            [n \in DOMAIN d |->
                MinOf({d[n]} \cup {d[e[1]] + e[3] : e \in {x \in E : x[2] = n /\ d[x[1]] # inf}})],
            k - 1)

\* the minimum total weight over all directed paths from s, inf where there is none
ShortestDistance(adj, s) ==
    LET V == GraphNodes(adj) \cup {s}
    IN  BellmanFord(Edges(adj), [n \in V |-> IF n = s THEN 0 ELSE inf], Cardinality(V))

\* the cheapest stored edge from a to b, inf when none is stored
EdgeWeight(adj, a, b) == MinOf({e[3] : e \in {x \in Edges(adj) : x[1] = a /\ x[2] = b}} \cup {inf})

RECURSIVE PathWeight(_, _)
PathWeight(adj, p) ==
    IF Len(p) <= 1 THEN 0
    ELSE EdgeWeight(adj, p[1], p[2]) + PathWeight(adj, Tail(p))

Ended == pc \in {"returned", "raised"}

-----------------------------------------------------------------------------
(* Properties *)

\* C1: when dijkstra(start) returns, every node of the graph has a recorded
\* distance, equal to the minimum total weight over all directed paths from
\* start (infinity exactly when there is no path).
C1_DistancesAreShortest ==
    (op = "dijkstra" /\ pc = "returned") =>
        \A n \in GraphNodes(adjacency) :
            /\ n \in DOMAIN distances
            /\ distances[n] = ShortestDistance(adjacency, start)[n]

\* Supporting fact for C1: every distance that a returned dijkstra does record
\* is the shortest distance.
RecordedDistancesAreShortest ==
    (op = "dijkstra" /\ pc = "returned") =>
        \A n \in DOMAIN distances :
            distances[n] = ShortestDistance(adjacency, start)[n]

\* C2: when end is reachable from start, shortest_path(start, end) returns a
\* sequence from start to end along stored edges whose summed weights equal
\* the recorded distance of end.
C2_PathIsShortest ==
    (op = "shortest_path" /\ Ended
        /\ DistanceOf(ShortestDistance(adjacency, start), end) # inf) =>
        /\ pc = "returned"
        /\ path # <<>>
        /\ path[1] = start
        /\ path[Len(path)] = end
        /\ \A i \in 1..(Len(path) - 1) : EdgeWeight(adjacency, path[i], path[i + 1]) # inf
        /\ PathWeight(adjacency, path) = DistanceOf(distances, end)

\* C3: dijkstra(start) completes without raising and its two tables have an
\* entry for every node of the graph, key or target.
C3_TablesCoverAllNodes ==
    (op = "dijkstra" /\ Ended) =>
        /\ pc = "returned"
        /\ GraphNodes(adjacency) \subseteq DOMAIN distances
        /\ GraphNodes(adjacency) \subseteq DOMAIN previous_nodes

\* C4: dijkstra(A) records distance 0 for A, and shortest_path(A, A) returns
\* the one-element sequence [A] without raising, on every graph.
C4_PathToItself ==
    /\ (op = "dijkstra" /\ pc = "returned") => DistanceOf(distances, start) = 0
    /\ (op = "shortest_path" /\ Ended /\ start = end) =>
            (pc = "returned" /\ path = <<start>>)

\* C5: in the tables dijkstra(start) returns, start has distance 0 and
\* predecessor None, also when start is no key of the adjacency map.
C5_StartEntry ==
    (op = "dijkstra" /\ pc = "returned") =>
        /\ start \in DOMAIN distances
        /\ distances[start] = 0
        /\ start \in DOMAIN previous_nodes
        /\ previous_nodes[start] = None

\* C6: when end is unreachable from start or absent from the graph,
\* shortest_path(start, end) returns the empty sequence and never raises, and
\* the distance of end counts as infinite.
C6_NoPathIsEmpty ==
    (op = "shortest_path" /\ Ended
        /\ DistanceOf(ShortestDistance(adjacency, start), end) = inf) =>
        /\ pc = "returned"
        /\ path = <<>>
        /\ DistanceOf(distances, end) = inf

\* C7 as stated: on the empty graph dijkstra(start) returns an empty distance
\* table and an empty predecessor table.
C7_EmptyTables ==
    (adjacency = EmptyMap /\ op = "dijkstra" /\ Ended) =>
        /\ pc = "returned"
        /\ DOMAIN distances = {}
        /\ DOMAIN previous_nodes = {}

\* C7 as amended: on the empty graph dijkstra(start) returns the distance
\* table {start: 0} and an empty predecessor table.
C7_EmptyGraphTables ==
    (adjacency = EmptyMap /\ op = "dijkstra" /\ Ended) =>
        /\ pc = "returned"
        /\ distances = [n \in {start} |-> 0]
        /\ DOMAIN previous_nodes = {}

C7_Witness == adjacency = EmptyMap /\ op = "dijkstra" /\ pc = "returned"

\* C8: on the demo graph dijkstra("A") records A=0, B=4, C=2, D=9, E=5, F=20
\* and shortest_path("A", "D") returns [A, C, E, D].
C8_DemoResults ==
    (loaded = Len(DemoEdges) /\ start = "A" /\ Ended) =>
        /\ pc = "returned"
        /\ distances = [n \in DemoNodes |->
                CASE n = "A" -> 0 [] n = "B" -> 4 [] n = "C" -> 2
                  [] n = "D" -> 9 [] n = "E" -> 5 [] n = "F" -> 20]
        /\ (op = "shortest_path" /\ end = "D") => path = <<"A", "C", "E", "D">>

C8_Witness ==
    /\ loaded = Len(DemoEdges)
    /\ op = "shortest_path" /\ start = "A" /\ end = "D" /\ pc = "returned"
    /\ Len(path) = 4

\* the dijkstra part of the last call has returned, so both tables are final
TablesFinal ==
    /\ op \in {"dijkstra", "shortest_path"}
    /\ Ended
    /\ ~(pc = "raised" /\ edge_i > 0)

RECURSIVE ExpectedList(_, _)
ExpectedList(cs, n) ==
    IF cs = <<>> THEN <<>>
    ELSE LET c == cs[Len(cs)]
         IN  ExpectedList(SubSeq(cs, 1, Len(cs) - 1), n)
               \o (IF c.source = n THEN << <<c.target, c.weight>> >> ELSE <<>>)
               \o (IF c.bidirectional /\ c.target = n
                   THEN << <<c.source, c.weight>> >> ELSE <<>>)

\* C10: after any sequence of add_edge calls the list of each node is, in
\* call order, the (target, weight) of the calls with that source and the
\* (source, weight) of the bidirectional calls with that target; a node with
\* no such call has no list.
C10_ListsAreCallHistory ==
    /\ \A n \in Nodes : Neighbors(adjacency, n) = ExpectedList(calls, n)
    /\ DOMAIN adjacency = {n \in Nodes : ExpectedList(calls, n) # <<>>}

C10_Witness ==
    /\ Len(calls) = 2
    /\ calls[1] = calls[2]
    /\ calls[1].bidirectional
    /\ calls[1].source = calls[1].target
    /\ Len(adjacency[calls[1].source]) = 4

-----------------------------------------------------------------------------
(* Properties of the run of dijkstra, step by step *)

\* the call is inside the relaxation loop of dijkstra
InLoop == pc \in {"while", "for"}

\* C11: from one step of a run of dijkstra to the next no recorded distance
\* increases, and the distance and the predecessor of a node that is in
\* visited_nodes are not changed.
C11_DistancesOnlyDecrease ==
    [][ InLoop =>
          \A n \in DOMAIN distances :
              /\ n \in DOMAIN distances'
              /\ ~Less(distances[n], distances'[n])
              /\ (n \in visited_nodes) =>
                    /\ distances'[n] = distances[n]
                    /\ (n \in DOMAIN previous_nodes) = (n \in DOMAIN previous_nodes')
                    /\ (n \in DOMAIN previous_nodes) =>
                          previous_nodes'[n] = previous_nodes[n] ]_vars

\* a run has returned in which some node was pushed twice, that is, a
\* relaxation lowered a distance that was finite already
C11_Witness ==
    /\ op = "dijkstra" /\ pc = "returned"
    /\ pushes > 1 + Cardinality({n \in DOMAIN previous_nodes : previous_nodes[n] # None})

\* what C12 says of one step inside the loop, but for the way the loop ends:
\* a node is marked visited, and its for loop entered, only when it was not
\* visited before; any other pop changes nothing but the heap; no node leaves
\* visited_nodes; the pushes of the run are at most 1 + the stored entries
LoopStepBounded ==
    /\ (pc = "while" /\ pc' = "for") =>
          /\ current_node' \notin visited_nodes
          /\ visited_nodes' = visited_nodes \cup {current_node'}
    /\ (pc = "while" /\ pc' = "while") =>
          /\ current_node' \in visited_nodes
          /\ Len(heap') = Len(heap) - 1
          /\ UNCHANGED <<visited_nodes, distances, previous_nodes, pushes>>
    /\ pc' # "for" => visited_nodes' = visited_nodes
    /\ pushes' <= 1 + EntryCount(adjacency)
    /\ Len(heap') <= pushes'

\* C12: the relaxation loop of dijkstra ends with an empty heap; each node is
\* marked visited and relaxed at most once, every other pop is discarded as
\* stale, and a run pushes at most 1 + the number of stored entries.
C12_LoopEndsEmpty ==
    [][ InLoop => (LoopStepBounded /\ (~InLoop' => heap' = <<>>)) ]_vars

\* Supporting fact for C12: everything C12 says holds of the runs in which
\* no KeyError is raised, and the bounds hold of every run.
LoopEndsEmptyUnlessRaised ==
    [][ InLoop => (LoopStepBounded /\ ((~InLoop' /\ pc' # "raised") => heap' = <<>>)) ]_vars

\* the tables hold values of a call
TablesLive == op \in {"dijkstra", "shortest_path"} /\ pc # "idle"

\* C13: at every step of dijkstra, for every node n of the tables other than
\* start, previous_nodes[n] is None exactly when distances[n] is infinite, and
\* otherwise it is a visited node p with a stored edge (p, n, w) such that
\* distances[n] = distances[p] + w.
C13_PredecessorLockstep ==
    TablesLive =>
        \A n \in (DOMAIN distances \cup DOMAIN previous_nodes) \ {start} :
            /\ n \in DOMAIN distances
            /\ n \in DOMAIN previous_nodes
            /\ (previous_nodes[n] = None) = (distances[n] = inf)
            /\ (previous_nodes[n] # None) =>
                  LET p == previous_nodes[n]
                  IN  /\ p \in visited_nodes
                      /\ p \in DOMAIN distances
                      /\ \E e \in Edges(adjacency) :
                            /\ e[1] = p
                            /\ e[2] = n
                            /\ distances[n] = distances[p] + e[3]

\* in the middle of a run: one node has a predecessor, another has none yet
C13_Witness ==
    /\ pc = "for"
    /\ \E n \in DOMAIN previous_nodes : n # start /\ previous_nodes[n] # None
    /\ \E n \in DOMAIN previous_nodes : n # start /\ previous_nodes[n] = None

\* following prev from n ends at None or outside the table within k steps
RECURSIVE EndsWithin(_, _, _)
EndsWithin(prev, n, k) ==
    \/ n = None
    \/ n \notin DOMAIN prev
    \/ k > 0 /\ EndsWithin(prev, prev[n], k - 1)

NoCycle(prev) == \A n \in DOMAIN prev : EndsWithin(prev, n, Cardinality(DOMAIN prev))

NoRepeat(p) == \A i \in 1..Len(p) : \A j \in 1..Len(p) : p[i] = p[j] => i = j

\* C14: the predecessor table of dijkstra never holds a cycle, and the path
\* that shortest_path collects and returns never repeats a node (so the walk
\* ends within as many steps as the distance table has nodes).
C14_NoPredecessorCycle ==
    /\ NoCycle(previous_nodes)
    /\ NoRepeat(path)
    /\ Len(path) <= Cardinality(DOMAIN distances)

\* a path over a zero-weight cycle has been returned
C14_Witness ==
    /\ op = "shortest_path" /\ pc = "returned"
    /\ Len(path) = 2
    /\ EdgeWeight(adjacency, path[1], path[2]) = 0
    /\ EdgeWeight(adjacency, path[2], path[1]) = 0

\* C15: whichever of the entries of equal least distance each pop takes,
\* dijkstra ends as it does with the pop order of heapq (returns, or raises),
\* and when it returns the distance table is the same.
C15_SameDistancesAnyOrder ==
    (op = "dijkstra" /\ Ended) =>
        LET d == dijkstra(adjacency, start)
        IN  /\ pc = d.pc
            /\ pc = "returned" => distances = d.distances

\* a run has returned whose pop order gave another predecessor table than
\* the pop order of heapq
C15_Witness ==
    /\ op = "dijkstra" /\ pc = "returned"
    /\ previous_nodes # dijkstra(adjacency, start).previous_nodes

====
